---- MODULE Spec2Model ----
(***************************************************************************)
(* State-machine model of scripts/demo_cr.py: planning_example().  One run *)
(* of the function is a walk of pc through                                 *)
(*   plan -> validate -> show -> static -> save -> solution -> frames      *)
(*        -> done                                                          *)
(* with "raised" the state in which an exception left the function.        *)
(*                                                                         *)
(* Lengths are kept in HALF units wherever the code divides by two (axis   *)
(* limits), so that (l - h)/2 stays exact.  A decision time is kept as the *)
(* number v of 1e-4 s it is written with; the float the code holds is the  *)
(* binary double nearest to v/10000, and round(time, 3) rounds THAT.       *)
(***************************************************************************)
EXTENDS Integers, Sequences, FiniteSets, TLC

\* ----------------------------------------------------------------- bounds
MaxSteps == 3        \* longest candidate list (len(fplist))
MaxTraj  == 7        \* longest ego trajectory (len(state_list))
MaxObs   == 1        \* most dynamic obstacles in the scenario
MaxCand  == 2        \* most candidates at one decision step

\* ------------------------------------------------------ program constants
Margin       == 8    \* min(x_coords)-8, max(x_coords)+8
QuiverStride == 5    \* x_coords_f[:-1:5], dx_ego_f[::5]
ShowRange    == 100  \* for i in range(100)
ShowEvery    == 10   \* if i%10 != 0: continue

method      == "FISS+"
scenario_id == "DEU_Flensburg-1_1_T-1"

\* ------------------------------------------------------------- filesystem
\* root_dir ("data/") exists: the scenario file was read from it.
root_dir == "data"
ResultsDir  == "data/results"
FigsParent  == "data/results/figs"
FigsDir     == "data/results/figs/demo"
CacheRoot   == "data/results/gif_cache"
CacheMethod == "data/results/gif_cache/FISS+"
CacheDir    == "data/results/gif_cache/FISS+/DEU_Flensburg-1_1_T-1"
GifRoot     == "data/results/gif"
GifDir      == "data/results/gif/FISS+"

AllDirs == {ResultsDir, FigsParent, FigsDir, CacheRoot, CacheMethod, CacheDir,
            GifRoot, GifDir}

Parent(d) ==
    CASE d = ResultsDir  -> root_dir
      [] d = FigsParent  -> ResultsDir
      [] d = FigsDir     -> FigsParent
      [] d = CacheRoot   -> ResultsDir
      [] d = CacheMethod -> CacheRoot
      [] d = CacheDir    -> CacheMethod
      [] d = GifRoot     -> ResultsDir
      [] d = GifDir      -> GifRoot

\* A directory tree: every directory present has its parent present.
FsStates == {S \in SUBSET AllDirs :
                \A d \in S : Parent(d) = root_dir \/ Parent(d) \in S}

Exists(d, fs) == d = root_dir \/ d \in fs

RECURSIVE PathTo(_)
PathTo(d) == IF d = root_dir THEN {} ELSE {d} \cup PathTo(Parent(d))

\* os.mkdir(path): creates one level; the parent must exist.
MkdirOk(d, fs) == Exists(Parent(d), fs) /\ ~Exists(d, fs)
Mkdir(d, fs)   == fs \cup {d}

\* os.makedirs(path): creates the directory and every missing ancestor.
MakeDirs(d, fs) == fs \cup PathTo(d)

\* ---------------------------------------------------------------- helpers
Range(s) == {s[k] : k \in DOMAIN s}
Min2(a, b) == IF a <= b THEN a ELSE b
Max2(a, b) == IF a >= b THEN a ELSE b
SeqMin(s) == CHOOSE m \in Range(s) : \A v \in Range(s) : m <= v
SeqMax(s) == CHOOSE m \in Range(s) : \A v \in Range(s) : m >= v

\* Python slices of a list held as a 1-based sequence.
SliceTo(s, i)   == SubSeq(s, 1, Min2(i, Len(s)))          \* s[0:i]
SliceFrom(s, i) == SubSeq(s, Min2(i, Len(s)) + 1, Len(s)) \* s[i:]

XCoords(state_list) == [k \in DOMAIN state_list |-> state_list[k][1]]
YCoords(state_list) == [k \in DOMAIN state_list |-> state_list[k][2]]

\* The axis limits set by plt.xlim / plt.ylim, in half units.
SquareLimits(state_list) ==
    LET x_min == SeqMin(XCoords(state_list)) - Margin
        x_max == SeqMax(XCoords(state_list)) + Margin
        y_min == SeqMin(YCoords(state_list)) - Margin
        y_max == SeqMax(YCoords(state_list)) + Margin
        l     == Max2(x_max - x_min, y_max - y_min)
    IN  IF l = x_max - x_min
        THEN [xlo |-> 2 * x_min, xhi |-> 2 * x_max,
              ylo |-> 2 * y_min - (l - (y_max - y_min)),
              yhi |-> 2 * y_max + (l - (y_max - y_min))]
        ELSE [xlo |-> 2 * x_min - (l - (x_max - x_min)),
              xhi |-> 2 * x_max + (l - (x_max - x_min)),
              ylo |-> 2 * y_min, yhi |-> 2 * y_max]

\* The binary double nearest to v/10000 against v/10000 itself: "below",
\* "above" or "exact".  The binary expansion is produced by long division
\* (r is the remainder, out of TimeUnit); the double keeps the first
\* MantissaBits significant bits (n counts them) and rounds on the rest.
TimeUnit     == 10000
MantissaBits == 53
RECURSIVE BitLength(_)
BitLength(m) == IF m = 0 THEN 0 ELSE 1 + BitLength(m \div 2)
RECURSIVE DoubleError(_, _)
DoubleError(r, n) ==
    IF r = 0 THEN "exact"
    ELSE IF n = MantissaBits
         THEN IF 2 * r < TimeUnit THEN "below" ELSE "above"
         ELSE DoubleError((2 * r) % TimeUnit,
                          IF n > 0 \/ 2 * r >= TimeUnit THEN n + 1 ELSE 0)

\* round(time_list[i], 3), result in 1e-3 s: the double is rounded correctly
\* to three decimals, so a time written with a final 5 goes the way its double
\* lies (round(0.0045, 3) = 0.004), and half to even when the double is exact.
Round3(v) ==
    LET q == v \div 10
        e == DoubleError(v % TimeUnit, BitLength(v \div TimeUnit))
    IN  IF v % 10 < 5 THEN q
        ELSE IF v % 10 > 5 THEN q + 1
        ELSE IF e = "below" THEN q
        ELSE IF e = "above" THEN q + 1
        ELSE IF q % 2 = 0 THEN q ELSE q + 1

\* The except clause of planning_example: "except RuntimeError".
CatchesNothing(e) == FALSE
Catches(e) == e = "RuntimeError"

\* The order of the stages of planning_example (the loop over fplist is the
\* stage "frames"); "done" is the normal return.
ProgramOrderSolutionLast ==
    <<"plan", "validate", "show", "static", "save", "frames", "solution", "done">>
ProgramOrder ==
    <<"plan", "validate", "show", "static", "save", "solution", "frames", "done">>

After(stage) ==
    LET k == CHOOSE j \in DOMAIN ProgramOrder : ProgramOrder[j] = stage
    IN  ProgramOrder[k + 1]

\* ------------------------------------------------------ frame composition
\* ego_vehicle_trajectory.state_list[0:i] and [i:]
EgoPastInclusive(state_list, t) == SliceTo(state_list, t + 1)
EgoPast(state_list, t)   == SliceTo(state_list, t)
EgoFuture(state_list, t) == SliceFrom(state_list, t)

\* quiver(x_coords_f[:-1:5], y_coords_f[:-1:5], dx_ego_f[::5], dy_ego_f[::5])
NumMarkers(f) ==
    IF Len(f) <= 1 THEN 0 ELSE ((Len(f) - 2) \div QuiverStride) + 1
Markers(f) ==
    [k \in 1..NumMarkers(f) |->
        LET a == f[QuiverStride * (k - 1) + 1]
            b == f[QuiverStride * (k - 1) + 2]
        IN  [at |-> a, d |-> <<b[1] - a[1], b[2] - a[2]>>]]

\* The figure composed in iteration t of "for i in range(len(fplist))";
\* tl is time_list as it stands after time_list.append(0).
Frame(t, state_list, fplist, tl, obstacles) ==
    [time_begin |-> t,
     overlay    |-> fplist[t + 1],
     past       |-> EgoPast(state_list, t),
     future     |-> EgoFuture(state_list, t),
     markers    |-> Markers(EgoFuture(state_list, t)),
     limits     |-> SquareLimits(state_list),
     obstacles  |-> obstacles,
     title      |-> [method |-> method, n |-> Len(fplist[t + 1]),
                     time |-> Round3(tl[t + 1])],
     suptitle   |-> scenario_id]

\* file_path of frame i: <result_path>/<time_step>.jpg, named by its index.
FramePathFixed(t) == 0
FramePath(t) == t

\* ------------------------------------------------------------------ state
VARIABLES
    show_visualization, save_traj_visualization, save_allFrenet_visualization,
    scenario,     \* [dynamic_obstacles: number of them, extent: limits left by rnd.render()]
    planning,     \* what planning(...) returns: [found, state_list, time_list, fplist]
    checks,       \* verdicts of the collision engine and the feasibility checker
    interactive_backend,  \* matplotlib backend: plt.show() opens windows and blocks
    fig,          \* pyplot's open figures, the current one last
    pc, time_list, i, images, validation, dirs, static_fig, cache, gif,
    solution_writes, shown, stdout, events, exc, retval

env  == <<show_visualization, save_traj_visualization,
          save_allFrenet_visualization, scenario, planning, checks,
          interactive_backend>>
vars == <<show_visualization, save_traj_visualization,
          save_allFrenet_visualization, scenario, planning, checks,
          interactive_backend, fig,
          pc, time_list, i, images, validation, dirs, static_fig, cache, gif,
          solution_writes, shown, stdout, events, exc, retval>>

Event(op, idx) == [op |-> op, idx |-> idx]

\* ----------------------------------------------------------------- inputs
MaxFree == 3         \* longest free-form ego trajectory

Dirs   == {<<1, 0>>, <<0, 1>>, <<1, 2>>, <<-2, 1>>}
Points == {<<0, 0>>, <<3, 0>>, <<0, -3>>}
Line(len, d) == [k \in 1..len |-> <<(k - 1) * d[1], (k - 1) * d[2]>>]

\* Ego trajectories the planner may return: straight runs of up to MaxTraj
\* states and every walk of up to MaxFree states over Points.
Trajs == {Line(len, d) : len \in 1..MaxTraj, d \in Dirs}
         \cup UNION {[1..n -> Points] : n \in 1..MaxFree}
DefaultTraj == Line(2, <<1, 0>>)

\* Candidate lists of one decision step, each candidate held by its cost_final.
CandLists == {[k \in 1..n |-> k] : n \in 1..MaxCand}
DefaultCands == [k \in 1..1 |-> 1]

\* Decision times (1e-4 s).
TimeVals  == {12, 38, 45}
TimeLists == UNION {[1..n -> TimeVals] : n \in 0..MaxSteps}
DefaultTimes(n) == [k \in 1..n |-> 12]

NoPlan == [found |-> FALSE, state_list |-> <<>>, time_list |-> <<>>, fplist |-> <<>>]
Plan(sl, tl, fpl) == [found |-> TRUE, state_list |-> sl, time_list |-> tl, fplist |-> fpl]

\* Axis limits left by MPRenderer.render() (the extent of the scenario), half units.
WideExtent == [xlo |-> -200, xhi |-> 200, ylo |-> -60, yhi |-> 60]
TallExtent == [xlo |-> -40, xhi |-> 40, ylo |-> -300, yhi |-> 100]

AllPass == [obstacles |-> FALSE, boundary |-> FALSE, feasible |-> TRUE]
Verdicts == [obstacles : BOOLEAN, boundary : BOOLEAN, feasible : BOOLEAN]

\* Control flow: every toggle combination, directory tree and verdict.
InitFlow ==
    /\ show_visualization \in BOOLEAN
    /\ save_traj_visualization \in BOOLEAN
    /\ save_allFrenet_visualization \in BOOLEAN
    /\ scenario = [dynamic_obstacles |-> 1, extent |-> WideExtent]
    /\ planning \in {NoPlan} \cup
          {Plan(DefaultTraj, DefaultTimes(n), [k \in 1..n |-> DefaultCands]) :
              n \in 0..MaxSteps}
    /\ checks \in Verdicts
    /\ dirs \in FsStates
    /\ interactive_backend \in BOOLEAN

\* Geometry: every trajectory, obstacle count and scenario extent.
InitView ==
    /\ show_visualization = FALSE
    /\ save_traj_visualization \in BOOLEAN
    /\ save_allFrenet_visualization \in BOOLEAN
    /\ scenario \in [dynamic_obstacles : 0..MaxObs, extent : {WideExtent, TallExtent}]
    /\ planning \in
          {Plan(sl, DefaultTimes(n), [k \in 1..n |-> DefaultCands]) :
              sl \in Trajs, n \in 0..MaxSteps}
    /\ checks = AllPass
    /\ dirs = AllDirs
    /\ interactive_backend \in BOOLEAN

\* Frame titles: every decision-time list and candidate list.
InitTimes ==
    /\ show_visualization = FALSE
    /\ save_traj_visualization = FALSE
    /\ save_allFrenet_visualization = TRUE
    /\ scenario = [dynamic_obstacles |-> 1, extent |-> WideExtent]
    /\ planning \in
          {Plan(DefaultTraj, tl, fpl) :
              tl \in TimeLists,
              fpl \in UNION {[1..n -> CandLists] : n \in 0..MaxSteps}}
    /\ checks = AllPass
    /\ dirs = AllDirs
    /\ interactive_backend = FALSE

Init ==
    /\ InitFlow \/ InitView \/ InitTimes
    /\ pc = "plan"
    /\ fig = <<>>
    /\ time_list = <<>>
    /\ i = 0
    /\ images = <<>>
    /\ validation = <<>>
    /\ static_fig = <<>>
    /\ cache = [k \in {} |-> 0]
    /\ gif = <<>>
    /\ solution_writes = 0
    /\ shown = 0
    /\ stdout = <<>>
    /\ events = <<>>
    /\ exc = "none"
    /\ retval = "pending"

\* ---------------------------------------------------------------- actions
\* An exception e raised inside the try block: caught by "except RuntimeError"
\* (which prints and lets the function return None), or leaving the function.
PcOnRaise(e)       == IF Catches(e) THEN "done" ELSE "raised"
ExcOnRaise(e)      == IF Catches(e) THEN "none" ELSE e
RetvalOnRaise(e)   == IF Catches(e) THEN "None" ELSE "pending"
StdoutOnRaise(e, out) ==
    IF Catches(e) THEN Append(out, "not feasible, proceding to next file!") ELSE out
RetvalAt(stage) == IF stage = "done" THEN "None" ELSE "pending"

\* planning(...) returned a trajectory.
Planning ==
    /\ pc = "plan"
    /\ planning.found
    /\ time_list' = planning.time_list
    /\ pc' = After("plan")
    /\ UNCHANGED <<env, fig, i, images, validation, dirs, static_fig, cache, gif,
                   solution_writes, shown, stdout, events, exc, retval>>

\* ego_vehicle_trajectory is None: print, raise RuntimeError.
NoTrajectory ==
    /\ pc = "plan"
    /\ ~planning.found
    /\ stdout' = StdoutOnRaise("RuntimeError",
                               Append(stdout, "No ego vehicle trajectory found"))
    /\ pc' = PcOnRaise("RuntimeError")
    /\ exc' = ExcOnRaise("RuntimeError")
    /\ retval' = RetvalOnRaise("RuntimeError")
    /\ UNCHANGED <<env, fig, time_list, i, images, validation, dirs, static_fig, cache,
                   gif, solution_writes, shown, events>>

\* Both collision checks and the feasibility check; the second collide() runs
\* on the checker that holds the obstacles AND the road boundary.
ValidationGate ==
    /\ pc = "validate"
    /\ validation' = Append(validation,
           [res_collision  |-> checks.obstacles,
            res_outofbound |-> checks.obstacles \/ checks.boundary,
            feasible       |-> checks.feasible])
    /\ events' = Append(events, Event("validate", 0))
    /\ pc' = After("validate")
    /\ UNCHANGED <<env, fig, time_list, i, images, dirs, static_fig, cache, gif,
                   solution_writes, shown, stdout, exc, retval>>

\* What a returning plt.show() leaves of the open figures: on an interactive
\* backend it returns when the windows are closed, which destroys them.
AfterShow(figs) == IF interactive_backend THEN <<>> ELSE figs

\* The figure of one shown iteration: scenario, ego vehicle and planning
\* problem, with the limits rnd.render() leaves and no title.
ShowFigureOf == [blank |-> FALSE, limits |-> scenario.extent, title |-> "",
                 obstacles |-> scenario.dynamic_obstacles]

\* if show_visualization: "for i in range(100)" up to the next plt.show():
\* the iterations with i%10 != 0 are skipped, the next one (i = 10 * shown
\* so far) makes a figure, draws and calls plt.show(), where an interactive
\* backend waits.
ShowFigure ==
    /\ pc = "show"
    /\ show_visualization
    /\ ShowEvery * shown < ShowRange
    /\ fig' = Append(AfterShow(fig), ShowFigureOf)
    /\ shown' = shown + 1
    /\ UNCHANGED <<env, pc, time_list, i, images, validation, dirs, static_fig,
                   cache, gif, solution_writes, stdout, events, exc, retval>>

\* show_visualization is off, or the last plt.show() returns and the loop ends.
EndShow ==
    /\ pc = "show"
    /\ ~show_visualization \/ ShowEvery * shown >= ShowRange
    /\ fig' = AfterShow(fig)
    /\ pc' = After("show")
    /\ UNCHANGED <<env, time_list, i, images, validation, dirs, static_fig, cache,
                   gif, solution_writes, shown, stdout, events, exc, retval>>

\* The limits of the static figure: plt.xlim/plt.ylim sit in the body of
\* "for obs in scenario.dynamic_obstacles", so they run once per obstacle and
\* not at all without one; then the limits are those rnd.render() left.
StaticLimits ==
    IF scenario.dynamic_obstacles > 0
    THEN SquareLimits(planning.state_list)
    ELSE scenario.extent

\* The figure plt.savefig writes when pyplot has no current figure: a new,
\* empty one (no axes, no title).
BlankFigure ==
    [blank |-> TRUE, limits |-> [xlo |-> 0, xhi |-> 0, ylo |-> 0, yhi |-> 0],
     title |-> "", obstacles |-> 0]

\* The figure the static export draws (plt.figure ... plt.title).
StaticFigure == [blank |-> FALSE, limits |-> StaticLimits, title |-> method,
                 obstacles |-> scenario.dynamic_obstacles]

\* if save_traj_visualization, up to the call of plt.show(): make and draw
\* the figure, os.mkdir the target directory when it does not exist (which
\* raises with the figure left open), call plt.show(), where an interactive
\* backend waits.
StaticDraw ==
    /\ pc = "static"
    /\ IF ~save_traj_visualization
       THEN /\ pc' = After("save")
            /\ UNCHANGED <<dirs, fig, stdout, shown, exc>>
       ELSE /\ fig' = Append(fig, StaticFigure)
            /\ IF Exists(FigsDir, dirs) \/ MkdirOk(FigsDir, dirs)
               THEN /\ dirs' = IF Exists(FigsDir, dirs) THEN dirs
                               ELSE Mkdir(FigsDir, dirs)
                    /\ stdout' = IF Exists(FigsDir, dirs) THEN stdout
                                 ELSE Append(stdout, "Target directory created")
                    /\ shown' = shown + 1
                    /\ pc' = After("static")
                    /\ UNCHANGED exc
               ELSE /\ pc' = PcOnRaise("FileNotFoundError")
                    /\ exc' = ExcOnRaise("FileNotFoundError")
                    /\ stdout' = StdoutOnRaise("FileNotFoundError", stdout)
                    /\ UNCHANGED <<dirs, shown>>
    /\ retval' = RetvalAt(pc')
    /\ UNCHANGED <<env, time_list, i, images, validation, static_fig, cache, gif,
                   solution_writes, events>>

\* plt.show() returns; plt.savefig(file_path) writes the current figure (a
\* new empty one when none is open), print, plt.close() of that figure.
StaticSave ==
    /\ pc = "save"
    /\ LET open == AfterShow(fig)
       IN  /\ static_fig' = IF open = <<>> THEN <<BlankFigure>>
                            ELSE <<open[Len(open)]>>
           /\ fig' = IF open = <<>> THEN <<>> ELSE SubSeq(open, 1, Len(open) - 1)
    /\ stdout' = Append(stdout, "Fig saved to")
    /\ events' = Append(events, Event("static", 0))
    /\ pc' = After("save")
    /\ retval' = RetvalAt(pc')
    /\ UNCHANGED <<env, time_list, i, images, validation, dirs, cache, gif,
                   solution_writes, shown, exc>>

\* CommonRoadSolutionWriter(solution).write_to_file(..., overwrite=True)
WriteSolution ==
    /\ pc = "solution"
    /\ solution_writes' = solution_writes + 1
    /\ events' = Append(events, Event("solution", 0))
    /\ pc' = After("solution")
    /\ retval' = RetvalAt(pc')
    /\ UNCHANGED <<env, fig, time_list, i, images, validation, dirs, static_fig, cache,
                   gif, shown, stdout, exc>>

\* One iteration of "for i in range(len(fplist))": compose the figure,
\* time_list.append(0), os.makedirs the cache directory when it does not
\* exist, savefig to <i>.jpg, images.append(Image.open(file_path)).
\* Image.open is lazy: images holds the file, read when the gif is saved.
ComposeFrame ==
    /\ pc = "frames"
    /\ save_allFrenet_visualization
    /\ i < Len(planning.fplist)
    /\ time_list' = Append(time_list, 0)
    /\ dirs' = IF Exists(CacheDir, dirs) THEN dirs ELSE MakeDirs(CacheDir, dirs)
    /\ stdout' = (IF Exists(CacheDir, dirs) THEN stdout
                  ELSE Append(stdout, "Target directory created"))
                 \o <<"Fig saved to">>
    /\ cache' = (FramePath(i) :> Frame(i, planning.state_list, planning.fplist,
                                       time_list', scenario.dynamic_obstacles))
                @@ cache
    /\ images' = Append(images, FramePath(i))
    /\ events' = Append(events, Event("frame", i))
    /\ i' = i + 1
    /\ UNCHANGED <<env, fig, pc, validation, static_fig, gif, solution_writes, shown,
                   exc, retval>>

\* After the loop: os.makedirs the gif directory when it does not exist, build
\* gif_filepath from scenario_id (bound only inside the loop body), then
\* images[0].save(gif_filepath, save_all=True, append_images=images[1:], ...).
EncodeAnimation ==
    /\ pc = "frames"
    /\ save_allFrenet_visualization
    /\ i = Len(planning.fplist)
    /\ dirs' = IF Exists(GifDir, dirs) THEN dirs ELSE MakeDirs(GifDir, dirs)
    /\ events' = IF Len(planning.fplist) = 0
                 THEN Append(events, Event("encode", 0))
                 ELSE events \o <<Event("encode", 0), Event("gif_saved", 0)>>
    /\ IF Len(planning.fplist) = 0
       THEN /\ pc' = PcOnRaise("UnboundLocalError")
            /\ exc' = ExcOnRaise("UnboundLocalError")
            /\ stdout' = StdoutOnRaise("UnboundLocalError",
                   IF Exists(GifDir, dirs) THEN stdout
                   ELSE Append(stdout, "Target directory created"))
            /\ UNCHANGED gif
       ELSE /\ gif' = <<[k \in 1..Len(images) |-> cache[images[k]]]>>
            /\ stdout' = (IF Exists(GifDir, dirs) THEN stdout
                          ELSE Append(stdout, "Target directory created"))
                         \o <<"Gif saved to">>
            /\ pc' = After("frames")
            /\ UNCHANGED exc
    /\ retval' = RetvalAt(pc')
    /\ UNCHANGED <<env, fig, time_list, i, images, validation, static_fig, cache,
                   solution_writes, shown>>

\* save_allFrenet_visualization is off: nothing left to do.
SkipAnimation ==
    /\ pc = "frames"
    /\ ~save_allFrenet_visualization
    /\ pc' = After("frames")
    /\ retval' = RetvalAt(pc')
    /\ UNCHANGED <<env, fig, time_list, i, images, validation, dirs, static_fig, cache,
                   gif, solution_writes, shown, stdout, events, exc>>

Next ==
    \/ Planning
    \/ NoTrajectory
    \/ ValidationGate
    \/ ShowFigure
    \/ EndShow
    \/ StaticDraw
    \/ StaticSave
    \/ WriteSolution
    \/ ComposeFrame
    \/ EncodeAnimation
    \/ SkipAnimation

Spec == Init /\ [][Next]_vars

\* ----------------------------------------------------------------- claims
Ended == pc \in {"done", "raised"}
Before(op, k) == \E j \in 1..(k - 1) : events[j].op = op
Count(op) == Cardinality({k \in DOMAIN events : events[k].op = op})
ExportOps == {"static", "frame", "gif_saved"}
NumSteps == Len(planning.fplist)

\* C1 (as stated): in a run with a trajectory, validation and the solution
\* export each run exactly once, and both have completed before any export
\* output (static image, frame still, animation) is written.
GateAndSolutionBeforeAnyExport ==
    /\ \A k \in DOMAIN events :
          events[k].op \in ExportOps =>
              Before("validate", k) /\ Before("solution", k)
    /\ Count("validate") <= 1 /\ Count("solution") <= 1
    /\ (pc = "done" /\ planning.found) =>
          Count("validate") = 1 /\ Count("solution") = 1 /\ solution_writes = 1

\* C1 (amended): validation runs exactly once and completes before any
\* export output; the solution export runs at most once (exactly once in a
\* run that returns normally), AFTER the static overview image when that is
\* enabled, and before any frame still or the animation.
GateBeforeExportSolutionBeforeFrames ==
    /\ \A k \in DOMAIN events :
          /\ events[k].op \in ExportOps => Before("validate", k)
          /\ events[k].op \in {"frame", "gif_saved"} => Before("solution", k)
          /\ events[k].op = "static" => ~Before("solution", k)
    /\ Count("validate") <= 1 /\ Count("solution") <= 1
    /\ solution_writes = Count("solution")
    /\ (planning.found /\ pc # "plan" /\ pc # "validate") => Count("validate") = 1
    /\ (pc = "done" /\ planning.found) => Count("solution") = 1

AllExportsWritten ==
    /\ pc = "done"
    /\ static_fig # <<>>
    /\ gif # <<>>
    /\ solution_writes = 1
    /\ Len(validation) = 1

\* C2: with no ego trajectory the run is logged and abandoned, nothing is
\* validated or written, and planning_example returns normally.
NoTrajectoryAbortsQuietly ==
    (~planning.found /\ pc # "plan") =>
        /\ pc = "done" /\ retval = "None" /\ exc = "none"
        /\ validation = <<>>
        /\ solution_writes = 0
        /\ static_fig = <<>> /\ DOMAIN cache = {} /\ gif = <<>>
        /\ events = <<>>
        /\ stdout = <<"No ego vehicle trajectory found",
                      "not feasible, proceding to next file!">>

NoTrajectoryRunEnded == ~planning.found /\ pc = "done" /\ Len(stdout) = 2

\* C3: whatever the three validation flags are, a run with a trajectory
\* validates without raising, writes the solution record exactly once and
\* produces every export its toggles enable.
FailedValidationIsData ==
    (Ended /\ planning.found) =>
        /\ Len(validation) = 1
        /\ solution_writes = 1
        /\ save_traj_visualization => static_fig # <<>>
        /\ save_allFrenet_visualization =>
              gif # <<>> /\ DOMAIN cache = 0..(NumSteps - 1)

\* C4: a failed validation flag is reported (printed or returned) by the end
\* of the run.
ValidationReports ==
    {"Collision between the ego vehicle and the road boundary",
     "The planned trajectory is feasible"}
ValidationFailureSurfaced ==
    (pc = "done" /\ validation # <<>>
       /\ (validation[1].res_collision \/ validation[1].res_outofbound
             \/ ~validation[1].feasible)) =>
        \/ \E k \in DOMAIN stdout : stdout[k] \in ValidationReports
        \/ retval \notin {"None", "pending"}

\* C5: the static figure (when it has axes) and every frame use the same viewport V: the
\* bounding box of the whole ego trajectory padded by 8, grown about its
\* centre to a square; V is square and holds every trajectory point.
ClaimedViewport(sl) ==
    LET xs == XCoords(sl)
        ys == YCoords(sl)
        w  == SeqMax(xs) - SeqMin(xs) + 2 * Margin
        h  == SeqMax(ys) - SeqMin(ys) + 2 * Margin
        side == Max2(w, h)
    IN  [xlo |-> SeqMin(xs) + SeqMax(xs) - side,
         xhi |-> SeqMin(xs) + SeqMax(xs) + side,
         ylo |-> SeqMin(ys) + SeqMax(ys) - side,
         yhi |-> SeqMin(ys) + SeqMax(ys) + side]
Holds(V, pt) ==
    /\ V.xlo <= 2 * pt[1] /\ 2 * pt[1] <= V.xhi
    /\ V.ylo <= 2 * pt[2] /\ 2 * pt[2] <= V.yhi
CameraFixed ==
    \A lim \in {static_fig[k].limits : k \in {j \in DOMAIN static_fig :
                                                  ~static_fig[j].blank}}
               \cup {cache[q].limits : q \in DOMAIN cache} :
        /\ lim = ClaimedViewport(planning.state_list)
        /\ lim.xhi - lim.xlo = lim.yhi - lim.ylo
        /\ \A pt \in Range(planning.state_list) : Holds(lim, pt)

\* C6: each frame goes to its own <index>.jpg before the animation is
\* encoded, the encoder receives frames 0, 1, ..., N-1 in that order, none
\* skipped or repeated, and the animation holds N frames.
FramesEncodedInOrder ==
    /\ \A k \in DOMAIN events :
          events[k].op = "frame" =>
              /\ events[k].idx = Cardinality({j \in 1..(k - 1) : events[j].op = "frame"})
              /\ events[k].idx \in DOMAIN cache
              /\ cache[events[k].idx].time_begin = events[k].idx
              /\ ~Before("encode", k)
    /\ gif # <<>> =>
          /\ NumSteps >= 1
          /\ Len(gif[1]) = NumSteps
          /\ DOMAIN cache = 0..(NumSteps - 1)
          /\ \A k \in 1..NumSteps :
                gif[1][k].time_begin = k - 1 /\ gif[1][k] = cache[k - 1]
          /\ Count("frame") = NumSteps

LongAnimationSaved == gif # <<>> /\ Len(gif[1]) = MaxSteps /\ pc = "done"

\* C7: with the animation enabled and no frame composed, the encoding fails
\* without writing an animation, leaves the solution record and the static
\* image as they were, and the failure does not leave planning_example as an
\* unhandled error.
EncodeReached == \E k \in DOMAIN events : events[k].op = "encode"
EmptyAnimationFailsCleanly ==
    (EncodeReached /\ NumSteps = 0) =>
        /\ gif = <<>>
        /\ solution_writes = 1
        /\ save_traj_visualization => static_fig # <<>>
        /\ pc # "raised" /\ exc = "none"

\* C8: composing a frame leaves the decision-time list as the planner
\* returned it, and every frame's title is the one obtained by composing
\* that frame alone from the planner's data.
IsolatedTitleTime(t) ==
    LET tl == Append(planning.time_list, 0)
    IN  IF t + 1 <= Len(tl) THEN Round3(tl[t + 1]) ELSE -1
FramesArePure ==
    (planning.found /\ pc # "plan") =>
        /\ time_list = planning.time_list
        /\ \A q \in DOMAIN cache :
              /\ cache[q].title.time = IsolatedTitleTime(cache[q].time_begin)
              /\ cache[q].title.n = Len(planning.fplist[cache[q].time_begin + 1])

\* C9: directory creation never fails on an existing directory or a missing
\* parent, and every file written finds its directory present.
DirectoriesCreatedIdempotently ==
    /\ exc \notin {"FileNotFoundError", "FileExistsError"}
    /\ static_fig # <<>> => FigsDir \in dirs
    /\ DOMAIN cache # {} => CacheDir \in dirs
    /\ gif # <<>> => GifDir \in dirs
    /\ \A d \in dirs : Exists(Parent(d), dirs)

\* C10 (as stated): frame t draws states 0..t as the past and t..T as the
\* future, so that from t = 1 on state t ends the past and starts the
\* future; the past is empty at t = 0 only, and the future is never empty.
StateAt(k) == planning.state_list[k + 1]
LastIndex == Len(planning.state_list) - 1
EgoSplitSharesStateT ==
    \A q \in DOMAIN cache :
        LET f == cache[q]
            t == f.time_begin
        IN  /\ t >= 1 =>
                  /\ Len(f.past) = Min2(t, LastIndex) + 1
                  /\ \A k \in 0..(Len(f.past) - 1) : f.past[k + 1] = StateAt(k)
            /\ f.past = <<>> => t = 0
            /\ f.future # <<>>
            /\ \A k \in 0..(Len(f.future) - 1) : f.future[k + 1] = StateAt(t + k)

\* C10 (amended): frame t draws states 0..t-1 as the past and t..T as the
\* future (state t in the future only); the past is empty exactly at t = 0,
\* the future is non-empty whenever t <= T, and a direction marker sits at
\* future samples 0, 5, 10, ... short of the last one.
EgoSplitAtT ==
    \A q \in DOMAIN cache :
        LET f == cache[q]
            t == f.time_begin
            at == {k \in 0..(Len(f.future) - 2) : k % QuiverStride = 0}
        IN  /\ Len(f.past) = Min2(t, LastIndex + 1)
            /\ \A k \in 0..(Len(f.past) - 1) : f.past[k + 1] = StateAt(k)
            /\ Len(f.future) = Max2(LastIndex + 1 - t, 0)
            /\ \A k \in 0..(Len(f.future) - 1) : f.future[k + 1] = StateAt(t + k)
            /\ (f.past = <<>>) <=> (t = 0)
            /\ t <= LastIndex => f.future # <<>>
            /\ Len(f.markers) = Cardinality(at)
            /\ \A m \in 1..Len(f.markers) :
                  /\ QuiverStride * (m - 1) \in at
                  /\ f.markers[m].at = f.future[QuiverStride * (m - 1) + 1]

SplitWithTwoMarkers ==
    \E q, r \in DOMAIN cache :
        /\ Len(cache[q].markers) >= 2
        /\ cache[r].time_begin >= 1 /\ cache[r].past # <<>> /\ cache[r].future # <<>>

====
